---- MODULE Spec2Model ----
(***************************************************************************)
(* Model of src/bind/ffmpeg/opfs-device.js: Module.registerOpfsFile binds  *)
(* an OPFS sync access handle to a character device node of the Emscripten *)
(* file system.  The file system (FS) and the access handle are            *)
(* collaborators of the adapter; they are modelled by the operators named  *)
(* FS_* and store*, the adapter's own code by the other definitions.       *)
(***************************************************************************)
EXTENDS Integers, Sequences, FiniteSets, TLC

VARIABLES
    fsDefined,   \* typeof FS !== 'undefined'
    minorCtr,    \* Module["_opfs_device_minor"]; 0 stands for undefined or 0
    devices,     \* FS.devices: device number -> access handle captured by the ops
    tree,        \* the virtual file tree: node path -> node
    streams,     \* the open streams of the hosting layer
    store,       \* contents of each access handle's file
    handleOpen,  \* whether each access handle is still open (not closed by anyone)
    last,        \* the last call made into the adapter, with its outcome
    calls        \* history: the calls of registerOpfsFile, in order

vars == <<fsDefined, minorCtr, devices, tree, streams, store, handleOpen, last, calls>>

----------------------------------------------------------------------------
(* Bounds of the model *)

MaxMinor == 3        \* calls of registerOpfsFile explored
IOMounts == 1        \* calls of registerOpfsFile explored along the stream operations
Cap == 2             \* bytes a backing store can hold
MaxPos == 2          \* |position| of a stream explored
MaxOff == 2          \* |offset| of a seek explored

(* Program constants *)

Major == 80
SEEK_SET == 0
SEEK_CUR == 1
SEEK_END == 2

Handles == {"h1", "h2"}
NoHandle == "none"
Streams == {1, 2}

Min(a, b) == IF a < b THEN a ELSE b
Max(a, b) == IF a > b THEN a ELSE b

----------------------------------------------------------------------------
(* Paths are strings, modelled as sequences of one-character strings. *)

PathInputs ==
    { <<"/", "a">>,
      <<"/", "d">>,
      <<"/", "d", "/", "a">>,
      <<"/", "x", "/", "y", "/", "a">> }

\* String.prototype.split('/')
RECURSIVE split(_)
split(s) ==
    IF s = <<>> THEN << <<>> >>
    ELSE LET rest == split(Tail(s)) IN
         IF Head(s) = "/" THEN << <<>> >> \o rest
         ELSE << <<Head(s)>> \o Head(rest) >> \o Tail(rest)

\* Array.prototype.join('/')
RECURSIVE join(_)
join(parts) ==
    IF parts = <<>> THEN <<>>
    ELSE IF Len(parts) = 1 THEN parts[1]
    ELSE parts[1] \o <<"/">> \o join(Tail(parts))

\* parts = path.split('/'); parts.pop(); dirPath = parts.join('/') || '/'
DirPath(path) ==
    LET parts == split(path)
        popped == SubSeq(parts, 1, Len(parts) - 1)
        joined == join(popped)
    IN IF joined = <<>> THEN <<"/">> ELSE joined

----------------------------------------------------------------------------
(* The Emscripten file system, as far as the adapter uses it. *)

NonEmpty(p) == p # <<>>

\* FS.lookupPath: the components of an absolute path
FS_components(path) == SelectSeq(split(path), NonEmpty)

Prefixes(c) == { SubSeq(c, 1, n) : n \in 0..Len(c) }

NodePaths == UNION { Prefixes(FS_components(p)) : p \in PathInputs }

NoNode == [kind |-> "none", rdev |-> 0]
DirNode == [kind |-> "dir", rdev |-> 0]
DevNode(dev) == [kind |-> "dev", rdev |-> dev]

\* FS.mknod: creates a node under an existing directory, or throws
FS_mknod(t, path, node) ==
    LET c == FS_components(path)
        parent == SubSeq(c, 1, Len(c) - 1)
    IN IF c = <<>> THEN [ok |-> FALSE, err |-> "EEXIST", tree |-> t]
       ELSE IF \E q \in Prefixes(parent) : t[q].kind = "none"
            THEN [ok |-> FALSE, err |-> "ENOENT", tree |-> t]
       ELSE IF \E q \in Prefixes(parent) : t[q].kind # "dir"
            THEN [ok |-> FALSE, err |-> "ENOTDIR", tree |-> t]
       ELSE IF t[c].kind # "none"
            THEN [ok |-> FALSE, err |-> "EEXIST", tree |-> t]
       ELSE [ok |-> TRUE, err |-> "", tree |-> [t EXCEPT ![c] = node]]

FS_mkdir(t, path) == FS_mknod(t, path, DirNode)

FS_mkdev(t, path, dev) == FS_mknod(t, path, DevNode(dev))

\* bitwise or of two naturals
RECURSIVE BitOr(_, _)
BitOr(a, b) ==
    IF a = 0 THEN b
    ELSE IF b = 0 THEN a
    ELSE 2 * BitOr(a \div 2, b \div 2) + (IF a % 2 = 1 \/ b % 2 = 1 THEN 1 ELSE 0)

\* FS.makedev(ma, mi) = (ma << 8) | mi
FS_makedev(ma, mi) == BitOr(ma * 256, mi)

\* FS.registerDevice(dev, ops): FS.devices[dev] = { stream_ops: ops }
FS_registerDevice(devs, dev, h) ==
    [d \in DOMAIN devs \cup {dev} |-> IF d = dev THEN h ELSE devs[d]]

----------------------------------------------------------------------------
(* The backing store behind an access handle: a byte sequence that grows   *)
(* on writes up to Cap bytes.                                              *)

Zeros(n) == [i \in 1..n |-> 0]

\* accessHandle.getSize()
storeSize(data) == Len(data)

\* accessHandle.read(view, {at}): the bytes transferred into a view of n bytes
storeRead(data, n, at) == SubSeq(data, at + 1, Min(Len(data), at + n))

\* accessHandle.write(view, {at}): the new contents and the count written
storeWrite(data, src, at) ==
    LET n == Min(Len(src), Max(0, Cap - at))
        padded == IF at > Len(data) THEN data \o Zeros(at - Len(data)) ELSE data
    IN IF n = 0 THEN [data |-> data, n |-> 0]
       ELSE [data |-> SubSeq(padded, 1, at) \o SubSeq(src, 1, n)
                        \o SubSeq(padded, at + n + 1, Len(padded)),
             n |-> n]

----------------------------------------------------------------------------
(* The stream operations registered for the device (lines 28-80). *)

\* TypedArray.prototype.subarray(begin, end)
subarray(buffer, begin, end) == SubSeq(buffer, begin + 1, Min(end, Len(buffer)))

\* open that seeks to the end of the store
open_seekEnd(stream) ==
    [ret |-> 0, stream |-> [stream EXCEPT !.position = storeSize(store[stream.h])]]

\* open: function(stream) { return 0; }  The value returned and the stream after
open(stream) == [ret |-> 0, stream |-> stream]

\* close that also closes the access handle
close_closesHandle(stream) == [ret |-> 0, closesHandle |-> TRUE]

\* close: function(stream) { return 0; }  The value returned; the handle is not
\* flushed or closed (lines 35-37)
close(stream) == [ret |-> 0, closesHandle |-> FALSE]

\* read that returns the length asked for instead of the count transferred
read_returnsLength(data, buffer, offset, length, position) ==
    LET view == subarray(buffer, offset, offset + length)
        got == storeRead(data, Len(view), position)
    IN [ret |-> length,
        buffer |-> SubSeq(buffer, 1, offset) \o got
                     \o SubSeq(buffer, offset + Len(got) + 1, Len(buffer))]

\* read that hands the buffer from offset to its end to the store, not only
\* length bytes of it
read_wholeBuffer(data, buffer, offset, length, position) ==
    LET view == subarray(buffer, offset, Len(buffer))
        got == storeRead(data, Len(view), position)
    IN [ret |-> Len(got),
        buffer |-> SubSeq(buffer, 1, offset) \o got
                     \o SubSeq(buffer, offset + Len(got) + 1, Len(buffer))]

\* read: the count returned and the caller's buffer after the call
read(data, buffer, offset, length, position) ==
    LET view == subarray(buffer, offset, offset + length)
        got == storeRead(data, Len(view), position)
    IN [ret |-> Len(got),
        buffer |-> SubSeq(buffer, 1, offset) \o got
                     \o SubSeq(buffer, offset + Len(got) + 1, Len(buffer))]

\* write that takes the bytes from the start of the buffer, not from offset
write_noOffset(data, buffer, offset, length, position) ==
    LET w == storeWrite(data, subarray(buffer, 0, length), position)
    IN [ret |-> w.n, data |-> w.data]

\* write that reports the length asked for, whatever the store wrote
write_returnsLength(data, buffer, offset, length, position) ==
    LET w == storeWrite(data, subarray(buffer, offset, offset + length), position)
    IN [ret |-> length, data |-> w.data]

\* write: the count returned and the store after the call
write(data, buffer, offset, length, position) ==
    LET w == storeWrite(data, subarray(buffer, offset, offset + length), position)
    IN [ret |-> w.n, data |-> w.data]

\* the call of the access handle throws when the store faults or the handle
\* has been closed
storeFails(fault, isOpen) == fault \/ ~isOpen

\* the access handle is called again after a failure
BackendCall_retry(fails) == [threw |-> fails, attempts |-> IF fails THEN 2 ELSE 1]

\* accessHandle.read(...) / accessHandle.write(...): one call, outside any
\* try/catch, so what it throws reaches the caller of read / write
BackendCall(fails) == [threw |-> fails, attempts |-> 1]

\* llseek whose SEEK_END ignores the size of the store
llseek_endIgnoresSize(position, offset, whence, size) ==
    IF whence = SEEK_SET THEN offset
    ELSE IF whence = SEEK_CUR THEN position + offset
    ELSE IF whence = SEEK_END THEN offset
    ELSE position

\* llseek whose SEEK_CUR ignores the current position
llseek_curIgnoresPosition(position, offset, whence, size) ==
    IF whence = SEEK_SET THEN offset
    ELSE IF whence = SEEK_CUR THEN offset
    ELSE IF whence = SEEK_END THEN size + offset
    ELSE position

\* llseek that clamps the position to the size of the store
llseek_clamped(position, offset, whence, size) ==
    Min(size, IF whence = SEEK_SET THEN offset
              ELSE IF whence = SEEK_CUR THEN position + offset
              ELSE IF whence = SEEK_END THEN size + offset
              ELSE position)

\* llseek: the position returned
llseek(position, offset, whence, size) ==
    IF whence = SEEK_SET THEN offset
    ELSE IF whence = SEEK_CUR THEN position + offset
    ELSE IF whence = SEEK_END THEN size + offset
    ELSE position

----------------------------------------------------------------------------
(* State *)

ClosedStream == [open |-> FALSE, node |-> <<>>, h |-> NoHandle, position |-> 0]

\* the hosting layer's stream object for a device node: position starts at 0
NewStream(node, h) == [open |-> TRUE, node |-> node, h |-> h, position |-> 0]

NoCall ==
    [op |-> "none", path |-> <<>>, h |-> NoHandle, s |-> 0,
     offset |-> 0, length |-> 0, position |-> 0, whence |-> 0,
     ret |-> 0, ok |-> FALSE, threw |-> FALSE, minor |-> 0, buf |-> <<>>,
     chain |-> "", wdata |-> <<>>, wsize |-> 0, wstream |-> 0, chained |-> FALSE, pret |-> 0,
     preSize |-> 0, preStreams |-> <<>>, preStore |-> <<>>,
     pre |-> "", preParent |-> "",
     fault |-> FALSE, attempts |-> 0, after |-> "",
     preCtr |-> 0, preDevices |-> <<>>, grown |-> FALSE]

InitStore == [h \in Handles |-> IF h = "h1" THEN <<1>> ELSE <<2>>]

Init ==
    /\ fsDefined \in BOOLEAN
    /\ minorCtr = 0
    /\ devices = <<>>
    /\ tree = [n \in NodePaths |-> IF n = <<>> THEN DirNode ELSE NoNode]
    /\ streams = [s \in Streams |-> ClosedStream]
    /\ store = InitStore
    /\ handleOpen = [h \in Handles |-> TRUE]
    /\ last = NoCall
    /\ calls = <<>>

----------------------------------------------------------------------------
(* registerOpfsFile (lines 9-105) *)

\* a static minor number instead of the incremented counter
StaticMinor(ctr) == 1

\* a counter that starts again at 1 after two allocations
NextMinor_wraps(ctr) == (ctr % 2) + 1

\* if (!ctr) ctr = 0; minor = ++ctr
NextMinor(ctr) == ctr + 1

\* the counter is advanced before the file system is looked for
EarlyReturnCounter_counted(ctr) == ctr + 1

\* if (typeof FS === 'undefined') return false;  The counter after the early
\* return, which comes before the counter is read
EarlyReturnCounter(ctr) == ctr

\* try { FS.mkdir(dirPath) } catch(e) { }
EnsureDir(t, dirPath) == FS_mkdir(t, dirPath).tree

\* what occupies the parent directory of a path: "dir", "absent" (creatable),
\* "nondir", or "orphan" (the parent's own parent is missing or no directory)
ParentState(t, path) ==
    LET c == FS_components(path)
        parent == SubSeq(c, 1, Len(c) - 1)
        grand == SubSeq(c, 1, Len(c) - 2)
    IN IF t[parent].kind = "dir" THEN "dir"
       ELSE IF t[parent].kind = "dev" THEN "nondir"
       ELSE IF \A q \in Prefixes(grand) : t[q].kind = "dir" THEN "absent"
       ELSE "orphan"

\* an occupied path is unlinked and bound again
BindDevice_rebind(t, path, device) ==
    IF t[FS_components(path)].kind = "dev"
    THEN [ok |-> TRUE, err |-> "",
          tree |-> [t EXCEPT ![FS_components(path)] = DevNode(device)]]
    ELSE FS_mkdev(EnsureDir(t, DirPath(path)), path, device)

\* the failure of FS.mkdev is swallowed and true is returned
BindDevice_swallow(t, path, device) ==
    [FS_mkdev(EnsureDir(t, DirPath(path)), path, device) EXCEPT !.ok = TRUE]

\* try { FS.mkdir(dirPath) } catch(e) {}; FS.mkdev(path, device); return true;
\* and return false when FS.mkdev threw.  ok is the value returned.
BindDevice(t, path, device) == FS_mkdev(EnsureDir(t, DirPath(path)), path, device)

registerOpfsFile(path, h) ==
    /\ IF ~fsDefined
       THEN /\ last' = [NoCall EXCEPT !.op = "mount", !.path = path, !.h = h,
                                      !.pre = tree[FS_components(path)].kind,
                                      !.preParent = ParentState(tree, path),
                                      !.preCtr = minorCtr, !.preDevices = devices]
            /\ calls' = Append(calls, [path |-> path, h |-> h, ok |-> FALSE, minor |-> 0,
                                       pre |-> tree[FS_components(path)].kind,
                                       preParent |-> ParentState(tree, path)])
            /\ minorCtr' = EarlyReturnCounter(minorCtr)
            /\ UNCHANGED <<devices, tree>>
       ELSE LET minor == NextMinor(minorCtr)
                device == FS_makedev(Major, minor)
                made == BindDevice(tree, path, device)
            IN /\ minorCtr' = minor
               /\ devices' = FS_registerDevice(devices, device, h)
               /\ tree' = made.tree
               /\ calls' = Append(calls, [path |-> path, h |-> h, ok |-> made.ok,
                                           minor |-> minor,
                                           pre |-> tree[FS_components(path)].kind,
                                           preParent |-> ParentState(tree, path)])
               /\ last' = [NoCall EXCEPT !.op = "mount", !.path = path, !.h = h,
                                         !.ok = made.ok, !.minor = minor,
                                         !.pre = tree[FS_components(path)].kind,
                                         !.preParent = ParentState(tree, path),
                                         !.preCtr = minorCtr, !.preDevices = devices]
    /\ UNCHANGED <<fsDefined, streams, store, handleOpen>>

----------------------------------------------------------------------------
(* The stream operations, as the hosting layer calls them on a stream of a *)
(* device node.                                                            *)

ReadBuf == <<9, 9>>
WriteBufs == { <<1, 2>> }
Ranges(buffer) == { r \in (0..Len(buffer)) \X (0..Len(buffer)) : r[1] + r[2] <= Len(buffer) }

Open(s, path) ==
    LET node == FS_components(path) IN
    /\ ~streams[s].open
    /\ tree[node].kind = "dev"
    /\ streams' = [streams EXCEPT
                      ![s] = open(NewStream(node, devices[tree[node].rdev])).stream]
    /\ last' = [NoCall EXCEPT !.op = "open", !.s = s, !.path = path,
                              !.h = devices[tree[node].rdev],
                              !.ret = open(NewStream(node, devices[tree[node].rdev])).ret,
                              !.preStreams = streams]
    /\ UNCHANGED <<fsDefined, minorCtr, devices, tree, store, handleOpen, calls>>

Close(s) ==
    /\ streams[s].open
    /\ streams' = [streams EXCEPT ![s] = ClosedStream]
    /\ handleOpen' = [handleOpen EXCEPT
                         ![streams[s].h] = @ /\ ~close(streams[s]).closesHandle]
    /\ last' = [NoCall EXCEPT !.op = "close", !.s = s, !.h = streams[s].h,
                              !.ret = close(streams[s]).ret, !.preStreams = streams,
                              !.preStore = store]
    /\ UNCHANGED <<fsDefined, minorCtr, devices, tree, store, calls>>

\* a read that directly follows a write of the same length at the same position
\* of the same store is tagged with the bytes written
AfterWrite(h, length, position) ==
    /\ last.op = "write" /\ last.h = h /\ ~last.threw
    /\ last.length = length /\ last.position = position

\* what a read or write directly follows: a call that threw, or a close
After == IF last.threw THEN "threw" ELSE IF last.op = "close" THEN "close" ELSE ""

Read(s, offset, length, position, fault) ==
    LET h == streams[s].h
        r == read(store[h], ReadBuf, offset, length, position)
        b == BackendCall(storeFails(fault, handleOpen[h]))
        call == [NoCall EXCEPT !.op = "read", !.s = s, !.h = h, !.offset = offset,
                               !.length = length, !.position = position,
                               !.preSize = storeSize(store[h]),
                               !.preStreams = streams, !.preStore = store,
                               !.fault = fault, !.attempts = b.attempts,
                               !.after = After]
    IN
    /\ streams[s].open
    /\ last' = IF b.threw THEN [call EXCEPT !.threw = TRUE, !.buf = ReadBuf]
               ELSE IF AfterWrite(h, length, position)
               THEN [call EXCEPT !.ret = r.ret, !.buf = r.buffer, !.chain = "wr",
                                 !.wsize = last.preSize, !.wstream = last.s,
                                 !.wdata = subarray(last.buf, last.offset,
                                                    last.offset + last.length)]
               ELSE [call EXCEPT !.ret = r.ret, !.buf = r.buffer]
    /\ UNCHANGED <<fsDefined, minorCtr, devices, tree, streams, store, handleOpen, calls>>

Write(s, buffer, offset, length, position, fault) ==
    LET h == streams[s].h
        w == write(store[h], buffer, offset, length, position)
        b == BackendCall(storeFails(fault, handleOpen[h]))
        call == [NoCall EXCEPT !.op = "write", !.s = s, !.h = h, !.offset = offset,
                               !.length = length, !.position = position,
                               !.buf = buffer, !.preStore = store,
                               !.preSize = storeSize(store[h]),
                               !.preStreams = streams,
                               !.fault = fault, !.attempts = b.attempts,
                               !.after = After]
    IN
    /\ streams[s].open
    /\ store' = IF b.threw THEN store ELSE [store EXCEPT ![h] = w.data]
    /\ last' = IF b.threw THEN [call EXCEPT !.threw = TRUE]
               ELSE [call EXCEPT !.ret = w.ret]
    /\ UNCHANGED <<fsDefined, minorCtr, devices, tree, streams, handleOpen, calls>>

\* the size the store had at first, whatever was written to it since
SeekSize_initial(stream) == storeSize(InitStore[stream.h])

\* accessHandle.getSize(), called inside llseek
SeekSize(stream) == storeSize(store[stream.h])

\* a seek that directly follows a write or an owner's append which grew the
\* store while the seeking stream was open
AfterGrowth(s) ==
    /\ last.op \in {"write", "owner"}
    /\ last.preStreams[s].open
    /\ last.preStreams[s].h = last.h
    /\ storeSize(store[last.h]) > last.preSize

\* the result of llseek is stored in stream.position by the hosting layer
Llseek(s, offset, whence) ==
    LET h == streams[s].h
        p == llseek(streams[s].position, offset, whence, SeekSize(streams[s]))
    IN
    /\ streams[s].open
    /\ -MaxPos <= p /\ p <= MaxPos
    /\ streams' = [streams EXCEPT ![s].position = p]
    /\ last' = [NoCall EXCEPT !.op = "llseek", !.s = s, !.h = h, !.offset = offset,
                              !.whence = whence, !.ret = p,
                              !.preSize = storeSize(store[h]),
                              !.preStreams = streams, !.preStore = store,
                              !.grown = AfterGrowth(s),
                              !.chained = (last.op = "llseek" /\ last.s = s),
                              !.pret = IF last.op = "llseek" /\ last.s = s
                                       THEN last.ret ELSE 0,
                              !.chain = IF whence = SEEK_END /\ offset = 0 THEN "end0"
                                        ELSE IF /\ last.chain = "end0" /\ last.s = s
                                                /\ whence = SEEK_CUR
                                             THEN "end0cur"
                                        ELSE ""]
    /\ UNCHANGED <<fsDefined, minorCtr, devices, tree, store, handleOpen, calls>>

\* the owner of an access handle appends a byte to its file, outside the device
OwnerAppend(h) ==
    /\ handleOpen[h]
    /\ storeSize(store[h]) < Cap
    /\ store' = [store EXCEPT ![h] = storeWrite(@, <<1>>, storeSize(@)).data]
    /\ last' = [NoCall EXCEPT !.op = "owner", !.h = h,
                              !.preSize = storeSize(store[h]), !.preStreams = streams]
    /\ UNCHANGED <<fsDefined, minorCtr, devices, tree, streams, handleOpen, calls>>

----------------------------------------------------------------------------
(* Specifications *)

Whences == {SEEK_SET, SEEK_CUR, SEEK_END}
Offsets == (0 - MaxOff)..MaxOff
Positions == 0..Cap

Mount(paths, handles, max) ==
    /\ Len(calls) < max
    /\ \E p \in paths, h \in handles : registerOpfsFile(p, h)

OpenAny(ss, paths) == \E s \in ss, p \in paths : Open(s, p)

CloseAny(ss) == \E s \in ss : Close(s)

ReadAny(faults) ==
    \E s \in Streams, r \in Ranges(ReadBuf), pos \in Positions, f \in faults :
        Read(s, r[1], r[2], pos, f)

WriteAny(faults) ==
    \E s \in Streams, b \in WriteBufs, pos \in Positions, f \in faults :
        \E r \in Ranges(b) : Write(s, b, r[1], r[2], pos, f)

LlseekAny == \E s \in Streams, off \in Offsets, w \in Whences : Llseek(s, off, w)

\* every call with every input
Next ==
    \/ Mount(PathInputs, Handles, MaxMinor)
    \/ OpenAny(Streams, PathInputs)
    \/ CloseAny(Streams)
    \/ ReadAny(BOOLEAN)
    \/ WriteAny(BOOLEAN)
    \/ LlseekAny
    \/ \E h \in Handles : OwnerAppend(h)

Spec == Init /\ [][Next]_vars

\* mounting: every path and handle, with one stream that reads the first byte
\* and writes the second
MountStreams == {1}

NextMount ==
    \/ Mount(PathInputs, Handles, MaxMinor)
    \/ OpenAny(MountStreams, PathInputs)
    \/ CloseAny(MountStreams)
    \/ \E s \in MountStreams : Read(s, 0, 1, 0, FALSE)
    \/ \E s \in MountStreams, b \in WriteBufs : Write(s, b, 1, 1, 1, FALSE)

SpecMount == Init /\ [][NextMount]_vars

IOPaths == { <<"/", "a">> }

\* seeking: every seek, with one-byte reads and writes and the owner's own
\* appends, on one mounted node
NextSeek ==
    \/ Mount(IOPaths, {"h1"}, IOMounts)
    \/ OpenAny(Streams, IOPaths)
    \/ CloseAny(Streams)
    \/ LlseekAny
    \/ OwnerAppend("h1")
    \/ \E s \in Streams, pos \in Positions : Read(s, 0, 1, pos, FALSE)
    \/ \E s \in Streams, b \in WriteBufs, pos \in Positions : Write(s, b, 0, 1, pos, FALSE)

SpecSeek == Init /\ [][NextSeek]_vars

\* reading and writing: every read and write, on one mounted node
NextRW ==
    \/ Mount(IOPaths, {"h1"}, IOMounts)
    \/ OpenAny(Streams, IOPaths)
    \/ CloseAny(Streams)
    \/ ReadAny(BOOLEAN)
    \/ WriteAny(BOOLEAN)

SpecRW == Init /\ [][NextRW]_vars

----------------------------------------------------------------------------
(* Claims about mounting, checked under SpecMount *)

Mounted == { i \in DOMAIN calls : calls[i].ok }

NodeOf(i) == FS_components(calls[i].path)

DistinctPaths == \A i, j \in DOMAIN calls : i # j => calls[i].path # calls[j].path

C2_DuplicateMountFails ==
    /\ \A j \in DOMAIN calls : calls[j].pre = "dev" => ~calls[j].ok
    /\ \A i \in Mounted :
          /\ tree[NodeOf(i)] = DevNode(FS_makedev(Major, calls[i].minor))
          /\ devices[tree[NodeOf(i)].rdev] = calls[i].h
          /\ \A s \in Streams :
                streams[s].open /\ streams[s].node = NodeOf(i)
                => /\ streams[s].h = calls[i].h
                   /\ (last.op = "read" /\ last.s = s)
                      => subarray(last.buf, last.offset, last.offset + last.ret)
                           = storeRead(store[calls[i].h], last.length, last.position)
                   /\ (last.op = "write" /\ last.s = s)
                      => /\ store[calls[i].h]
                              = storeWrite(last.preStore[calls[i].h],
                                           subarray(last.buf, last.offset,
                                                    last.offset + last.length),
                                           last.position).data
                         /\ \A g \in Handles \ {calls[i].h} : store[g] = last.preStore[g]

\* C2 witness: a read through a path whose second mount, with another handle,
\* failed after the first succeeded
C2_Witness ==
    \E i, j \in DOMAIN calls :
        /\ i < j
        /\ calls[i].path = calls[j].path
        /\ calls[i].h # calls[j].h
        /\ calls[i].ok
        /\ ~calls[j].ok
        /\ last.op = "read"
        /\ streams[last.s].node = NodeOf(i)
        /\ last.ret = 1
        /\ last.buf[1] = store[calls[i].h][1]
        /\ last.buf[1] # store[calls[j].h][1]

\* C3: of the registerOpfsFile calls that target one path, in whatever order
\* they run, at most one succeeds; the path is never registered twice.
C3_AtMostOneMountPerPath ==
    \A i, j \in Mounted : NodeOf(i) = NodeOf(j) => i = j

\* C3 witness: two calls targeted the same path and exactly one succeeded
C3_Witness ==
    \E i, j \in DOMAIN calls :
        /\ i # j
        /\ calls[i].path = calls[j].path
        /\ calls[i].ok
        /\ ~calls[j].ok
        /\ fsDefined

\* C4 as stated: an absent parent directory is created and the mount proceeds,
\* an existing parent directory lets the mount proceed, and a non-directory at
\* the parent path makes the mount fail with no node bound at the path.
C4_ParentEnsured ==
    fsDefined =>
    \A i \in DOMAIN calls :
        LET c == NodeOf(i)
            parent == SubSeq(c, 1, Len(c) - 1)
        IN /\ (calls[i].pre = "none" /\ calls[i].preParent \in {"absent", "orphan"})
              => calls[i].ok /\ tree[parent].kind = "dir"
           /\ (calls[i].pre = "none" /\ calls[i].preParent = "dir") => calls[i].ok
           /\ calls[i].preParent = "nondir"
              => ~calls[i].ok /\ tree[c].kind = "none"

\* C15 as stated: a registerOpfsFile call that fails because its path is
\* occupied, or because its parent is not a directory, leaves the minor counter
\* and the registered devices as they were before the call.
C15_FailedMountLeavesNoTrace ==
    (/\ last.op = "mount"
     /\ ~last.ok
     /\ last.pre = "dev" \/ last.preParent = "nondir")
    => /\ minorCtr = last.preCtr
       /\ devices = last.preDevices

Allocated == { i \in DOMAIN calls : calls[i].minor # 0 }

\* C16: the first minor number allocated is 1; every call that allocates, whether
\* it then succeeds or fails, gets a minor greater than every earlier one, with
\* the major 80; the counter holds the last minor allocated and never decreases.
C16_MinorsIncrease ==
    /\ [](/\ \A i \in Allocated : calls[i].minor >= 1
          /\ (fsDefined /\ calls # <<>>) => calls[1].minor = 1
          /\ \A i, j \in Allocated : i < j => calls[i].minor < calls[j].minor
          /\ \A i \in Allocated : calls[i].minor <= minorCtr
          /\ (fsDefined /\ calls # <<>>) => minorCtr = calls[Len(calls)].minor
          /\ DOMAIN devices = { FS_makedev(Major, calls[i].minor) : i \in Allocated })
    /\ [][minorCtr' >= minorCtr]_vars

\* C16 witness: three allocations, of which one for a call that failed and a
\* later one for a call that succeeded
C16_Witness ==
    /\ Len(calls) = 3
    /\ ~calls[2].ok
    /\ calls[3].ok
    /\ calls[3].minor = 3
    /\ minorCtr = 3

\* C19: registerOpfsFile throws nothing; it returns true exactly when the call
\* has bound a device node with its own device number at the path, and false
\* with the path left as it was otherwise; without a file system it returns
\* false, the minor counter stays unset and no device is registered.
C19_ReturnsWhetherBound ==
    /\ \A i \in DOMAIN calls : calls[i].ok => fsDefined
    /\ last.op = "mount"
       => LET node == FS_components(last.path)
          IN /\ ~last.threw
             /\ last.ok <=> /\ last.pre = "none"
                             /\ tree[node] = DevNode(FS_makedev(Major, last.minor))
             /\ ~last.ok => tree[node].kind = last.pre
             /\ ~fsDefined => /\ ~last.ok
                              /\ minorCtr = last.preCtr
                              /\ devices = last.preDevices
    /\ ~fsDefined => minorCtr = 0 /\ devices = <<>>

\* C19 witness: a call that returned false because its parent is a device node,
\* after a call that returned true and whose node is bound
C19_Witness ==
    /\ last.op = "mount"
    /\ ~last.ok
    /\ last.preParent = "nondir"
    /\ tree[FS_components(last.path)].kind = "none"
    /\ \E i \in Mounted : tree[NodeOf(i)] = DevNode(FS_makedev(Major, calls[i].minor))

----------------------------------------------------------------------------
(* Claims about seeking, checked under SpecSeek *)

C6_PositionNonNegative ==
    /\ last.op = "llseek" => last.ret >= 0
    /\ \A s \in Streams : streams[s].position >= 0

C10_IndependentCursors ==
    /\ last.op = "open" => streams[last.s].position = 0
    /\ last.op \in {"open", "llseek", "read", "write"}
       => \A s \in Streams \ {last.s} : streams[s] = last.preStreams[s]

\* C10 witness: two streams of one node, one sought to 2 while the other stays at 1
C10_Witness ==
    /\ last.op = "llseek"
    /\ last.ret = 2
    /\ \E s \in Streams \ {last.s} :
          /\ streams[s].open
          /\ streams[s].node = streams[last.s].node
          /\ streams[s].position = 1

\* C12: llseek with origin END returns the store's size at the time of the call
\* plus the offset, also when a write through any stream or an append by the
\* owner has grown the store since the stream was opened.
C12_SeekEndUsesCurrentSize ==
    (last.op = "llseek" /\ last.whence = SEEK_END)
    => /\ last.ret = last.preSize + last.offset
       /\ last.preSize = storeSize(store[last.h])

\* C12 witness: a seek to the end directly after the store grew from one byte
\* to two while the stream was open
C12_Witness ==
    /\ last.op = "llseek"
    /\ last.whence = SEEK_END
    /\ last.grown
    /\ last.preSize = 2
    /\ last.offset = 0
    /\ last.ret = 2

\* C17: a read or write transfers the bytes at the position passed to it, which
\* the store determines from that position and the length alone, wherever the
\* stream's cursor stands; it leaves every stream's cursor as it was; a read
\* changes the buffer only inside [offset, offset + length) and a write takes
\* its bytes only from there.
C17_PositionedIO ==
    /\ (last.op = "read" /\ ~last.threw)
       => LET got == storeRead(last.preStore[last.h], last.length, last.position)
          IN /\ last.ret = Len(got)
             /\ last.ret <= last.length
             /\ last.buf = SubSeq(ReadBuf, 1, last.offset) \o got
                             \o SubSeq(ReadBuf, last.offset + Len(got) + 1, Len(ReadBuf))
             /\ streams = last.preStreams
             /\ store = last.preStore
    /\ (last.op = "write" /\ ~last.threw)
       => LET w == storeWrite(last.preStore[last.h],
                              SubSeq(last.buf, last.offset + 1, last.offset + last.length),
                              last.position)
          IN /\ last.ret = w.n
             /\ store = [last.preStore EXCEPT ![last.h] = w.data]
             /\ streams = last.preStreams

\* C17 witness: a read of one byte at position 0 of a store of two bytes, through
\* a stream whose cursor stands at 2, fills the first byte of the buffer only
C17_Witness ==
    /\ last.op = "read"
    /\ ~last.threw
    /\ streams[last.s].position = 2
    /\ last.position = 0
    /\ last.length = 1
    /\ last.preSize = 2
    /\ last.ret = 1
    /\ last.buf = <<store[last.h][1], ReadBuf[2]>>

\* C18: llseek returns offset for origin START, the stream's position plus
\* offset for CURRENT and the store's size plus offset for END; the result is
\* not clamped to the size, so a seek past the end of the store returns, and
\* leaves the stream at, a position greater than the size.
C18_SeekArithmetic ==
    last.op = "llseek"
    => /\ last.whence = SEEK_SET => last.ret = last.offset
       /\ last.whence = SEEK_CUR
          => last.ret = last.preStreams[last.s].position + last.offset
       /\ last.whence = SEEK_END => last.ret = last.preSize + last.offset
       /\ store = last.preStore

\* C18 witness: a seek to one byte past the end of a store of one byte
C18_Witness ==
    /\ last.op = "llseek"
    /\ last.whence = SEEK_END
    /\ last.offset = 1
    /\ last.preSize = 1
    /\ last.ret = 2
    /\ streams[last.s].position > storeSize(store[last.h])

----------------------------------------------------------------------------
(* Claims about reading and writing, checked under SpecRW *)

\* C8: a read of length L at position P that directly follows a write of L bytes
\* at P, with P + L within the store's size, returns L and the bytes written,
\* through the same stream or another stream of the node.
C8_WriteThenRead ==
    (/\ last.op = "read"
     /\ last.chain = "wr"
     /\ last.position + last.length <= last.wsize)
    => /\ last.ret = last.length
       /\ subarray(last.buf, last.offset, last.offset + last.length) = last.wdata

\* C8 witness: two bytes written through one stream and read back through the other
C8_Witness ==
    /\ last.op = "read"
    /\ last.chain = "wr"
    /\ last.position + last.length <= last.wsize
    /\ last.length = 2
    /\ last.wstream # last.s
    /\ last.buf = <<1, 2>>

C11_StoreStaysOpen ==
    /\ \A h \in Handles : handleOpen[h]
    /\ last.op = "close"
       => /\ last.ret = 0
          /\ store = last.preStore
          /\ \A s \in Streams \ {last.s} : streams[s] = last.preStreams[s]
    /\ (last.op \in {"read", "write"} /\ ~last.fault) => ~last.threw

\* C11 witness: one stream of the node was closed and the read that directly
\* follows through the other stream returns the store's bytes
C11_Witness ==
    /\ last.op = "read"
    /\ last.after = "close"
    /\ ~streams[3 - last.s].open
    /\ last.length = 2
    /\ last.ret = 2
    /\ subarray(last.buf, last.offset, last.offset + 2) = SubSeq(store[last.h], 1, 2)

\* C13: write returns the count the backing store wrote, which is smaller than
\* the length asked for when the store takes fewer bytes, and the store holds
\* exactly the bytes it took.
C13_WriteReturnsBackendCount ==
    (last.op = "write" /\ ~last.threw)
    => LET w == storeWrite(last.preStore[last.h],
                           subarray(last.buf, last.offset, last.offset + last.length),
                           last.position)
       IN /\ last.ret = w.n
          /\ last.ret <= last.length
          /\ store[last.h] = w.data

\* C13 witness: a write of two bytes of which the store took one
C13_Witness ==
    /\ last.op = "write"
    /\ ~last.threw
    /\ last.length = 2
    /\ last.ret = 1
    /\ storeSize(store[last.h]) = last.position + 1

\* C14: a read or write calls the backing store once; it throws exactly when
\* that call fails; a call that threw changed neither the mounts nor any stream
\* nor the store; and the read or write that directly follows a failed call
\* works as usual.
C14_FailureScopedToCall ==
    /\ [](last.op \in {"read", "write"}
           => /\ last.attempts = 1
              /\ last.threw <=> last.fault
              /\ last.threw => /\ last.ret = 0
                               /\ store = last.preStore
                               /\ streams = last.preStreams
              /\ (last.after = "threw" /\ ~last.fault)
                 => /\ ~last.threw
                    /\ last.op = "read"
                       => subarray(last.buf, last.offset, last.offset + last.ret)
                            = storeRead(store[last.h], last.length, last.position)
                    /\ last.op = "write"
                       => last.ret = storeWrite(last.preStore[last.h],
                                                subarray(last.buf, last.offset,
                                                         last.offset + last.length),
                                                last.position).n)
    /\ [][(last'.op \in {"read", "write"} /\ last'.threw)
           => UNCHANGED <<fsDefined, minorCtr, devices, tree, streams, store,
                          handleOpen, calls>>]_vars

\* C14 witness: a read that returns two bytes directly after a call that threw
C14_Witness ==
    /\ last.op = "read"
    /\ last.after = "threw"
    /\ ~last.threw
    /\ last.ret = 2
    /\ streams[last.s].position = 0
    /\ Mounted # {}

====
